---- MODULE Spec2Model ----
(***************************************************************************)
(* A model of cellpylib/ca_functions.py: the binary codec (bits_to_int,    *)
(* int_to_bits), the rule evaluators (nks_rule, number_rule,               *)
(* totalistic_rule, table_rule), the random rule table generator           *)
(* (random_rule_table) and the stepping engine (evolve, index_strides).    *)
(*                                                                         *)
(* Python values are modelled as follows.  A list, a 1-d array or a string *)
(* is a sequence (a string is a sequence of one-character strings); a dict *)
(* is a function whose domain is its key set.  A call that may raise       *)
(* returns a record [err, val]: err = "none" and val the value returned,   *)
(* or err the exception raised and val a default of the same type.         *)
(***************************************************************************)
EXTENDS Integers, Sequences, FiniteSets, TLC

VARIABLES
    \* one call of a pure function (the codec and the rule evaluators)
    fn, args, ret, phase,
    \* evolve
    pc, cellular_automaton, n_steps, r, apply_rule, array, i, states, results, retval,
    \* random_rule_table, followed by one table_rule lookup in its table
    gen_pc, k, strong_quiescence, isotropic, quiescent_state, table,
    quiescent_state_count, pos, actual_lambda_val, lookup

rule_vars == <<fn, args, ret, phase>>
evolve_vars == <<pc, cellular_automaton, n_steps, apply_rule, array, i, states, results, retval>>
gen_vars == <<gen_pc, k, strong_quiescence, isotropic, quiescent_state, table,
              quiescent_state_count, pos, actual_lambda_val, lookup>>
vars == <<rule_vars, evolve_vars, r, gen_vars>>

----------------------------------------------------------------------------
(* Bounds of the model. *)

\* longest neighbourhood given to a rule evaluator called on its own
MaxLen == 3
\* largest rule number given to nks_rule and number_rule
MaxRule == 255
\* largest width given to int_to_bits
MaxWidth == 4
\* largest number of colours k of totalistic_rule called on its own
MaxK == 3
\* largest radius of the neighbourhoods given to totalistic_rule
MaxTotR == 2
\* totalistic_rule is given the rule numbers up to this one, the largest rule
\* number of its k and the first one out of range
MaxTotRule == 16
\* longest initial row given to evolve
MaxN == 3
\* largest radius given to evolve
MaxR == 4
\* largest n_steps given to evolve
MaxSteps == 3
\* random_rule_table with free flags: largest k, largest r and largest table k**(2r+1)
MaxGenK == 3
MaxGenR == 1
MaxTableSize == 9
\* the largest number of colours np.base_repr and int(x, k) support
MaxBase == 36

----------------------------------------------------------------------------
(* Python and numpy primitives the source calls. *)

Min(a, b) == IF a < b THEN a ELSE b
Max(a, b) == IF a > b THEN a ELSE b

Ok(v) == [err |-> "none", val |-> v]
Raise(e, v) == [err |-> e, val |-> v]

\* s[::-1]
Reverse(s) == [j \in 1..Len(s) |-> s[Len(s) + 1 - j]]

\* s[lo:] ; a negative lo counts from the end, and the bounds are clamped
SliceFrom(s, lo) ==
    LET a == IF lo < 0 THEN Max(Len(s) + lo, 0) ELSE Min(lo, Len(s))
    IN  [j \in 1..(Len(s) - a) |-> s[a + j]]

\* s[:hi]
SliceTo(s, hi) ==
    LET b == IF hi < 0 THEN Max(Len(s) + hi, 0) ELSE Min(hi, Len(s))
    IN  [j \in 1..b |-> s[j]]

RECURSIVE Sum(_)
\* sum(state)
Sum(s) == IF s = <<>> THEN 0 ELSE s[1] + Sum(Tail(s))

RECURSIVE Concat(_)
\* ''.join(parts)
Concat(parts) == IF parts = <<>> THEN <<>> ELSE parts[1] \o Concat(Tail(parts))

\* the digits of np.base_repr and of int(x, base)
Digits == << "0", "1", "2", "3", "4", "5", "6", "7", "8", "9",
             "A", "B", "C", "D", "E", "F", "G", "H", "I", "J", "K", "L", "M",
             "N", "O", "P", "Q", "R", "S", "T", "U", "V", "W", "X", "Y", "Z" >>

RECURSIVE DigitsOf(_, _)
\* the most-significant-first digit values of num > 0 in the given base
DigitsOf(num, base) ==
    IF num = 0 THEN <<>> ELSE Append(DigitsOf(num \div base, base), num % base)

\* np.base_repr(number, base) for number >= 0: '0' for 0, no leading zero otherwise
base_repr(number, base) ==
    IF number = 0 THEN << "0" >>
    ELSE [j \in 1..Len(DigitsOf(number, base)) |-> Digits[DigitsOf(number, base)[j] + 1]]

\* s.zfill(width): pads on the left with '0', never truncates
zfill(s, width) == [j \in 1..(Max(width, Len(s)) - Len(s)) |-> "0"] \o s

\* int(ch, base) of a one-character string: ValueError for a digit >= base
int_base(ch, base) ==
    LET d == CHOOSE d \in 1..Len(Digits) : Digits[d] = ch
    IN  IF d - 1 < base THEN Ok(d - 1) ELSE Raise("ValueError", 0)

\* str(x) of an integer x >= 0: its decimal digits
str(x) == base_repr(x, 10)

\* list(map(int, bin(num)[2:])) for num >= 0: [0] for 0
bin_digits(num) == IF num = 0 THEN << 0 >> ELSE DigitsOf(num, 2)

\* np.pad(a, (before, 0), 'constant'): ValueError for a negative pad width
pad_left(a, before) ==
    IF before < 0 THEN Raise("ValueError", <<>>)
    ELSE Ok([j \in 1..before |-> 0] \o a)

\* seq[idx] of Python: a negative index counts from the end
Subscript(seq, idx, dflt) ==
    LET j == IF idx < 0 THEN idx + Len(seq) ELSE idx
    IN  IF j >= 0 /\ j < Len(seq) THEN Ok(seq[j + 1]) ELSE Raise("IndexError", dflt)

----------------------------------------------------------------------------
(* The binary codec. *)

\* line 38 with the least significant bit dropped
bits_to_int_skipping_last(bits) ==
    LET rev == Reverse(bits)
        RECURSIVE Total(_)
        Total(shift) ==
            IF shift >= Len(rev) THEN 0
            ELSE (IF rev[shift + 1] # 0 /\ shift > 0 THEN 2 ^ shift ELSE 0) + Total(shift + 1)
    IN  Total(0)

bits_to_int(bits) ==
    LET rev == Reverse(bits)
        RECURSIVE Total(_)
        Total(shift) ==
            IF shift >= Len(rev) THEN 0
            ELSE (IF rev[shift + 1] # 0 THEN 2 ^ shift ELSE 0) + Total(shift + 1)
    IN  Total(0)

int_to_bits(num, num_digits) ==
    LET converted == bin_digits(num)
    IN  pad_left(converted, num_digits - Len(converted))

----------------------------------------------------------------------------
(* The rule evaluators. *)

\* line 63 indexing with n - state_int
nks_rule_off_by_one(state, rule) ==
    LET state_int == bits_to_int(state)
        n == 2 ^ Len(state)
        rule_bin_array == int_to_bits(rule, n)
    IN  IF rule_bin_array.err # "none" THEN Raise(rule_bin_array.err, 0)
        ELSE Subscript(rule_bin_array.val, n - state_int, 0)

nks_rule(state, rule) ==
    LET state_int == bits_to_int(state)
        n == 2 ^ Len(state)
        rule_bin_array == int_to_bits(rule, n)
    IN  IF rule_bin_array.err # "none" THEN Raise(rule_bin_array.err, 0)
        ELSE Subscript(rule_bin_array.val, (n - 1) - state_int, 0)

number_rule(state, rule) ==
    LET state_int == bits_to_int(state)
        rule_bin_array == int_to_bits(rule, 2 ^ Len(state))
    IN  IF rule_bin_array.err # "none" THEN Raise(rule_bin_array.err, 0)
        ELSE Subscript(rule_bin_array.val, state_int, 0)

totalistic_rule(state, kk, rule) ==
    LET rule_string == zfill(base_repr(rule, kk), 3 * kk - 2)
        state_sum == Sum(state)
        ch == Subscript(rule_string, (3 * kk - 3) - state_sum, "0")
    IN  IF Len(rule_string) > 3 * kk - 2 THEN Raise("rule number out of range", 0)
        ELSE IF ch.err # "none" THEN Raise(ch.err, 0)
        ELSE int_base(ch.val, kk)

table_rule(state, tbl) ==
    LET state_repr == Concat([j \in 1..Len(state) |-> str(state[j])])
    IN  IF state_repr \notin DOMAIN tbl THEN Raise("could not find state", 0)
        ELSE Ok(tbl[state_repr])

----------------------------------------------------------------------------
(* Calls of the pure functions: Init draws the function and its arguments,  *)
(* one action applies it.                                                   *)

\* all sequences of length len over the values 0..(colours - 1)
Neighbourhoods(len, colours) == [1..len -> 0..(colours - 1)]

IdleRules == fn = "none" /\ args = <<>> /\ ret = Ok(0) /\ phase = "idle"
IdleEvolve ==
    /\ pc = "idle" /\ cellular_automaton = <<>> /\ n_steps = 0 /\ apply_rule = <<>>
    /\ array = <<>> /\ i = 0 /\ states = <<>> /\ results = <<>> /\ retval = <<>>
IdleGen ==
    /\ gen_pc = "idle" /\ k = 0 /\ strong_quiescence = FALSE /\ isotropic = FALSE
    /\ quiescent_state = <<>> /\ table = <<>> /\ quiescent_state_count = 0 /\ pos = 0
    /\ actual_lambda_val = <<0, 1>> /\ lookup = <<>>

\* the rule numbers totalistic_rule is given for kk colours
TotalisticRules(kk) ==
    0..Min(MaxTotRule, kk ^ (3 * kk - 2)) \cup {kk ^ (3 * kk - 2) - 1, kk ^ (3 * kk - 2)}

InitCodec ==
    /\ \/ /\ fn = "int_to_bits"
          /\ \E v \in 0..(2 ^ MaxWidth - 1), w \in 0..MaxWidth :
                args = [num |-> v, num_digits |-> w]
       \/ /\ fn \in {"nks_rule", "number_rule"}
          /\ \E len \in 0..MaxLen :
                \E s \in Neighbourhoods(len, 2), ru \in 0..MaxRule :
                   args = [state |-> s, rule |-> ru]
    /\ ret = Ok(0) /\ phase = "call"
    /\ IdleEvolve /\ r = 0 /\ IdleGen

InitTotalistic ==
    /\ fn = "totalistic_rule"
    /\ \E kk \in 2..MaxK, rad \in 0..MaxTotR :
          \E s \in Neighbourhoods(2 * rad + 1, kk), ru \in TotalisticRules(kk) :
             args = [state |-> s, k |-> kk, rule |-> ru]
    /\ ret = Ok(0) /\ phase = "call"
    /\ IdleEvolve /\ r = 0 /\ IdleGen

\* num -> int_to_bits(num, num_digits)
IntToBits ==
    /\ fn = "int_to_bits" /\ phase = "call"
    /\ ret' = int_to_bits(args.num, args.num_digits)
    /\ phase' = IF ret'.err = "none" THEN "encoded" ELSE "raised"
    /\ UNCHANGED <<fn, args, evolve_vars, r, gen_vars>>

\* the bits int_to_bits returned -> bits_to_int(bits)
BitsToInt ==
    /\ fn = "int_to_bits" /\ phase = "encoded"
    /\ ret' = Ok(bits_to_int(ret.val))
    /\ phase' = "decoded"
    /\ UNCHANGED <<fn, args, evolve_vars, r, gen_vars>>

NksRule ==
    /\ fn = "nks_rule" /\ phase = "call"
    /\ ret' = nks_rule(args.state, args.rule)
    /\ phase' = IF ret'.err = "none" THEN "returned" ELSE "raised"
    /\ UNCHANGED <<fn, args, evolve_vars, r, gen_vars>>

NumberRule ==
    /\ fn = "number_rule" /\ phase = "call"
    /\ ret' = number_rule(args.state, args.rule)
    /\ phase' = IF ret'.err = "none" THEN "returned" ELSE "raised"
    /\ UNCHANGED <<fn, args, evolve_vars, r, gen_vars>>

TotalisticRule ==
    /\ fn = "totalistic_rule" /\ phase = "call"
    /\ ret' = totalistic_rule(args.state, args.k, args.rule)
    /\ phase' = IF ret'.err = "none" THEN "returned" ELSE "raised"
    /\ UNCHANGED <<fn, args, evolve_vars, r, gen_vars>>

NextCodec == IntToBits \/ BitsToInt \/ NksRule \/ NumberRule
SpecCodec == InitCodec /\ [][NextCodec]_vars

NextTotalistic == TotalisticRule
SpecTotalistic == InitTotalistic /\ [][NextTotalistic]_vars

----------------------------------------------------------------------------
(* evolve.  The grid `array` is a sequence of rows: array[j + 1] is Python's *)
(* array[j].  The list comprehension of line 30 is evaluated one cell at a   *)
(* time into `results`; the assignment to array[i] follows it.               *)

\* np.arange(n)
arange(n) == [j \in 1..n |-> j - 1]

\* line 21 with the left wing sliced by -(window_size//2) - 1
index_strides_wide_left(arr, window_size) ==
    LET ext == SliceFrom(arr, -(window_size \div 2) - 1) \o arr
                   \o SliceTo(arr, window_size \div 2)
        rows == Len(ext) - window_size + 1
    IN  IF rows < 0 THEN Raise("ValueError", <<>>)
        ELSE Ok([j \in 1..rows |-> [t \in 1..window_size |-> ext[j + t - 1]]])

\* -window_size//2+1 is ((-window_size)//2) + 1 with the floor division of Python;
\* as_strided raises ValueError for a negative number of rows
index_strides(arr, window_size) ==
    LET ext == SliceFrom(arr, ((-window_size) \div 2) + 1) \o arr
                   \o SliceTo(arr, window_size \div 2)
        rows == Len(ext) - window_size + 1
    IN  IF rows < 0 THEN Raise("ValueError", <<>>)
        ELSE Ok([j \in 1..rows |-> [t \in 1..window_size |-> ext[j + t - 1]]])

\* cells[strides]: the cells at the indices of each row of strides
Gather(cells, strides) ==
    [j \in 1..Len(strides) |-> [t \in 1..Len(strides[j]) |-> cells[strides[j][t] + 1]]]

\* the rule functions given to evolve: closures over a rule number or a table
NoTable == [s \in {} |-> 0]
Closure(kind, kk, rule, tbl) == [kind |-> kind, k |-> kk, rule |-> rule, table |-> tbl]

\* apply_rule(s, c); the evaluators of this file ignore c
ApplyRule(f, s, c) ==
    CASE f.kind = "nks_rule" -> nks_rule(s, f.rule)
      [] f.kind = "number_rule" -> number_rule(s, f.rule)
      [] f.kind = "totalistic_rule" -> totalistic_rule(s, f.k, f.rule)
      [] f.kind = "table_rule" -> table_rule(s, f.table)

\* the keys of a table of a 2-colour automaton with neighbourhoods of length len
BinaryKeys(len) == [1..len -> {"0", "1"}]
\* the table of the rule that copies the leftmost cell of the neighbourhood
ShiftTable(len) == [s \in BinaryKeys(len) |-> IF s[1] = "1" THEN 1 ELSE 0]
\* the same table without the keys that end in '0'
PartialTable(len) ==
    [s \in {key \in BinaryKeys(len) : key[len] = "1"} |-> IF s[1] = "1" THEN 1 ELSE 0]

RuleFunctions(rad) ==
    { Closure("nks_rule", 2, 30, NoTable),
      Closure("number_rule", 2, 30, NoTable),
      Closure("totalistic_rule", 2, 6, NoTable),
      Closure("totalistic_rule", 2, 16, NoTable),
      Closure("table_rule", 2, 0, ShiftTable(2 * rad + 1)),
      Closure("table_rule", 2, 0, PartialTable(2 * rad + 1)) }

NotReturned == [returned |-> FALSE, grid |-> <<>>]

InitEvolve ==
    /\ pc = "start"
    /\ \E cols \in 1..MaxN : cellular_automaton \in Neighbourhoods(cols, 2)
    /\ n_steps \in 1..MaxSteps
    /\ r \in 0..MaxR
    /\ apply_rule \in RuleFunctions(r)
    /\ array = <<>> /\ i = 0 /\ states = <<>> /\ results = <<>>
    /\ retval = NotReturned
    /\ IdleRules /\ IdleGen

\* lines 15-17: the grid of zeros, its row 0 the initial row
Allocate ==
    /\ pc = "start"
    /\ array' = [j \in 1..n_steps |->
                    IF j = 1 THEN cellular_automaton
                    ELSE [c \in 1..Len(cellular_automaton) |-> 0]]
    /\ i' = 1
    /\ pc' = "loop"
    /\ UNCHANGED <<cellular_automaton, n_steps, r, apply_rule, states, results, retval,
                   rule_vars, gen_vars>>

\* lines 26-29: the neighbourhoods of row i - 1
Neighbourhood ==
    /\ pc = "loop" /\ i < n_steps
    /\ LET cells == array[(i - 1) + 1]
           strides == index_strides(arange(Len(cells)), 2 * r + 1)
       IN  IF strides.err # "none"
           THEN pc' = "raised" /\ UNCHANGED states
           ELSE pc' = "eval" /\ states' = Gather(cells, strides.val)
    /\ results' = <<>>
    /\ UNCHANGED <<cellular_automaton, n_steps, r, apply_rule, array, i, retval,
                   rule_vars, gen_vars>>

\* line 30 storing each next state into array[i] as soon as it is computed
EvalCell_in_place ==
    /\ pc = "eval" /\ Len(results) < Len(states)
    /\ LET c == Len(results)
           next_state == ApplyRule(apply_rule, states[c + 1], c)
       IN  IF next_state.err # "none"
           THEN pc' = "raised" /\ UNCHANGED <<results, array>>
           ELSE /\ pc' = "eval" /\ results' = Append(results, next_state.val)
                /\ array' = IF c < Len(cellular_automaton)
                             THEN [array EXCEPT ![i + 1][c + 1] = next_state.val]
                             ELSE array
    /\ UNCHANGED <<cellular_automaton, n_steps, r, apply_rule, i, states, retval,
                   rule_vars, gen_vars>>

\* line 30, one element of the list comprehension: apply_rule(s, c)
EvalCell ==
    /\ pc = "eval" /\ Len(results) < Len(states)
    /\ LET c == Len(results)
           next_state == ApplyRule(apply_rule, states[c + 1], c)
       IN  IF next_state.err # "none"
           THEN pc' = "raised" /\ UNCHANGED results
           ELSE pc' = "eval" /\ results' = Append(results, next_state.val)
    /\ UNCHANGED <<cellular_automaton, n_steps, r, apply_rule, array, i, states, retval,
                   rule_vars, gen_vars>>

\* line 30, array[i] = np.array([...]): a one-element array is broadcast to the
\* row, an array of any other length than the row's raises ValueError
AssignRow ==
    /\ pc = "eval" /\ Len(results) = Len(states)
    /\ LET cols == Len(cellular_automaton)
       IN  IF Len(results) = cols
           THEN array' = [array EXCEPT ![i + 1] = results] /\ i' = i + 1 /\ pc' = "loop"
           ELSE IF Len(results) = 1
           THEN /\ array' = [array EXCEPT ![i + 1] = [c \in 1..cols |-> results[1]]]
                /\ i' = i + 1 /\ pc' = "loop"
           ELSE pc' = "raised" /\ UNCHANGED <<array, i>>
    /\ UNCHANGED <<cellular_automaton, n_steps, r, apply_rule, states, results, retval,
                   rule_vars, gen_vars>>

\* line 31
Return ==
    /\ pc = "loop" /\ i >= n_steps
    /\ retval' = [returned |-> TRUE, grid |-> array]
    /\ pc' = "done"
    /\ UNCHANGED <<cellular_automaton, n_steps, r, apply_rule, array, i, states, results,
                   rule_vars, gen_vars>>

NextEvolve == Allocate \/ Neighbourhood \/ EvalCell \/ AssignRow \/ Return
SpecEvolve == InitEvolve /\ [][NextEvolve]_vars

----------------------------------------------------------------------------
(* random_rule_table, and table_rule applied with the table it returns.     *)
(* quiescent_state is <<>> for None and <<q>> for the number q.  lambda_val  *)
(* only weights the draw of line 153, whose two outcomes are both taken.     *)
(* actual_lambda_val is the pair <<numerator, denominator>> of line 159.     *)

\* lines 129-132: the neighbourhood strings, in the order of enumeration
States(kk, n) == [j \in 1..(kk ^ n) |-> zfill(base_repr(j - 1, kk), n)]

\* len(set(state))
DistinctChars(state) == Cardinality({state[j] : j \in 1..Len(state)})

\* lines 143-157 counting the quiescent state only when it is drawn
Outcomes_uncounted(state, tbl, kk, q, strong, iso) ==
    IF strong /\ DistinctChars(state) = 1
    THEN {[next_state |-> int_base(state[1], kk).val, counted |-> 0]}
    ELSE IF iso /\ Reverse(state) \in DOMAIN tbl
    THEN {[next_state |-> tbl[Reverse(state)], counted |-> 0]}
    ELSE {[next_state |-> q, counted |-> 1]}
         \cup {[next_state |-> x, counted |-> 0] : x \in (0..(kk - 1)) \ {q}}

\* lines 143-157 forcing a uniform neighbourhood to the quiescent state
Outcomes_forced_quiescent(state, tbl, kk, q, strong, iso) ==
    IF strong /\ DistinctChars(state) = 1
    THEN {[next_state |-> q, counted |-> 1]}
    ELSE IF iso /\ Reverse(state) \in DOMAIN tbl
    THEN {[next_state |-> tbl[Reverse(state)],
           counted |-> IF tbl[Reverse(state)] = q THEN 1 ELSE 0]}
    ELSE {[next_state |-> q, counted |-> 1]}
         \cup {[next_state |-> x, counted |-> 0] : x \in (0..(kk - 1)) \ {q}}

\* lines 143-157 looking the neighbourhood itself up instead of its reverse
Outcomes_unreversed(state, tbl, kk, q, strong, iso) ==
    IF strong /\ DistinctChars(state) = 1
    THEN {[next_state |-> int_base(state[1], kk).val,
           counted |-> IF int_base(state[1], kk).val = q THEN 1 ELSE 0]}
    ELSE IF iso /\ state \in DOMAIN tbl
    THEN {[next_state |-> tbl[state], counted |-> IF tbl[state] = q THEN 1 ELSE 0]}
    ELSE {[next_state |-> q, counted |-> 1]}
         \cup {[next_state |-> x, counted |-> 0] : x \in (0..(kk - 1)) \ {q}}

\* lines 143-157: the next states one neighbourhood can get, each with the
\* increment of quiescent_state_count; other_states is (0..k-1) \ {q}
Outcomes(state, tbl, kk, q, strong, iso) ==
    IF strong /\ DistinctChars(state) = 1
    THEN {[next_state |-> int_base(state[1], kk).val,
           counted |-> IF int_base(state[1], kk).val = q THEN 1 ELSE 0]}
    ELSE IF iso /\ Reverse(state) \in DOMAIN tbl
    THEN {[next_state |-> tbl[Reverse(state)],
           counted |-> IF tbl[Reverse(state)] = q THEN 1 ELSE 0]}
    ELSE {[next_state |-> q, counted |-> 1]}
         \cup {[next_state |-> x, counted |-> 0] : x \in (0..(kk - 1)) \ {q}}

NoLookup == [state |-> <<>>, result |-> Ok(0)]

InitGen ==
    /\ gen_pc = "start"
    /\ \/ /\ k \in 2..MaxGenK /\ r \in 0..MaxGenR
          /\ k ^ (2 * r + 1) <= MaxTableSize
          /\ strong_quiescence \in BOOLEAN
       \/ /\ k \in 2..MaxBase /\ r = 0
          /\ strong_quiescence = TRUE
    /\ isotropic \in BOOLEAN
    /\ quiescent_state \in {<<>>} \cup {<<q>> : q \in (-1)..k}
    /\ table = NoTable /\ quiescent_state_count = 0 /\ pos = 0
    /\ actual_lambda_val = <<0, 1>> /\ lookup = NoLookup
    /\ IdleRules /\ IdleEvolve

\* lines 129-141: the default and the validation of quiescent_state
Start ==
    /\ gen_pc = "start"
    /\ \E q \in (-1)..k :
          /\ IF quiescent_state = <<>> THEN q \in 0..(k - 1) ELSE q = quiescent_state[1]
          /\ quiescent_state' = <<q>>
          /\ gen_pc' = IF 0 <= q /\ q <= k - 1 THEN "loop" ELSE "raised"
    /\ UNCHANGED <<k, r, strong_quiescence, isotropic, table, quiescent_state_count, pos,
                   actual_lambda_val, lookup, rule_vars, evolve_vars>>

\* lines 142-158, one iteration of the loop
Assign ==
    /\ gen_pc = "loop" /\ pos < k ^ (2 * r + 1)
    /\ LET state == States(k, 2 * r + 1)[pos + 1]
       IN  \E o \in Outcomes(state, table, k, quiescent_state[1],
                              strong_quiescence, isotropic) :
              /\ table' = [s \in DOMAIN table \cup {state} |->
                              IF s = state THEN o.next_state ELSE table[s]]
              /\ quiescent_state_count' = quiescent_state_count + o.counted
    /\ pos' = pos + 1
    /\ UNCHANGED <<gen_pc, k, r, strong_quiescence, isotropic, quiescent_state,
                   actual_lambda_val, lookup, rule_vars, evolve_vars>>

\* lines 159-160
Finish ==
    /\ gen_pc = "loop" /\ pos = k ^ (2 * r + 1)
    /\ actual_lambda_val' = <<k ^ (2 * r + 1) - quiescent_state_count, k ^ (2 * r + 1)>>
    /\ gen_pc' = "done"
    /\ UNCHANGED <<k, r, strong_quiescence, isotropic, quiescent_state, table,
                   quiescent_state_count, pos, lookup, rule_vars, evolve_vars>>

\* table_rule(state, table) for a neighbourhood of 2r+1 cell states in [0, k-1]
Lookup ==
    /\ gen_pc = "done"
    /\ \E s \in Neighbourhoods(2 * r + 1, k) :
          lookup' = [state |-> s, result |-> table_rule(s, table)]
    /\ gen_pc' = "looked_up"
    /\ UNCHANGED <<k, r, strong_quiescence, isotropic, quiescent_state, table,
                   quiescent_state_count, pos, actual_lambda_val, rule_vars, evolve_vars>>

NextGen == Start \/ Assign \/ Finish \/ Lookup
SpecGen == InitGen /\ [][NextGen]_vars

----------------------------------------------------------------------------
(* All of it. *)

Init == InitCodec \/ InitTotalistic \/ InitEvolve \/ InitGen
Next == NextCodec \/ NextTotalistic \/ NextEvolve \/ NextGen
Spec == Init /\ [][Next]_vars

----------------------------------------------------------------------------
(* What the claims are stated with. *)

\* the digit of weight base^(width - 1 - p) of value: the digit at position p,
\* counted from the left starting at 0, of its zero-padded expansion of that width
DigitAt(value, base, width, p) == (value \div (base ^ (width - 1 - p))) % base

RECURSIVE ValueOf(_, _)
\* the number a most-significant-first digit sequence stands for
ValueOf(digits, base) ==
    IF digits = <<>> THEN 0
    ELSE ValueOf(SubSeq(digits, 1, Len(digits) - 1), base) * base + digits[Len(digits)]

RECURSIVE RevRule(_, _)
\* the number whose width-bit expansion is the reverse of rule's
RevRule(rule, width) ==
    IF width = 0 THEN 0
    ELSE (rule % 2) * 2 ^ (width - 1) + RevRule(rule \div 2, width - 1)

----------------------------------------------------------------------------
(* C3 *)

\* C3 as stated: for every width w >= 0 and every v in [0, 2**w), int_to_bits(v, w)
\* returns exactly w bits, most significant first, and bits_to_int of them is v.
C3_RoundTripEveryWidth ==
    (fn = "int_to_bits" /\ phase # "call" /\ args.num < 2 ^ args.num_digits) =>
        /\ phase \in {"encoded", "decoded"}
        /\ phase = "encoded" =>
              /\ Len(ret.val) = args.num_digits
              /\ \A j \in 1..Len(ret.val) :
                    ret.val[j] = DigitAt(args.num, 2, args.num_digits, j - 1)
        /\ phase = "decoded" => ret.val = args.num

\* C3 amended: the same for every width w >= 1 (int_to_bits(0, 0) raises).
C3_RoundTrip ==
    (fn = "int_to_bits" /\ phase # "call" /\ args.num_digits >= 1
        /\ args.num < 2 ^ args.num_digits) =>
        /\ phase \in {"encoded", "decoded"}
        /\ phase = "encoded" =>
              /\ Len(ret.val) = args.num_digits
              /\ \A j \in 1..Len(ret.val) :
                    ret.val[j] = DigitAt(args.num, 2, args.num_digits, j - 1)
        /\ phase = "decoded" => ret.val = args.num

C3_Witness ==
    /\ fn = "int_to_bits" /\ phase = "decoded"
    /\ args.num = 5 /\ args.num_digits = 4 /\ ret.val = 5

----------------------------------------------------------------------------
(* C4 *)

\* C4 as stated: for every rule number in [0, k**(3k-2)) and every neighbourhood of
\* length 2r+1, totalistic_rule returns the digit at position (3k-3) - sum, a
\* position of the (3k-2)-digit base-k expansion of the rule number.
C4_DigitOfOwnSum ==
    (fn = "totalistic_rule" /\ phase # "call" /\ args.rule < args.k ^ (3 * args.k - 2)) =>
        LET p == (3 * args.k - 3) - Sum(args.state)
        IN  /\ phase = "returned"
            /\ p \in 0..(3 * args.k - 3)
            /\ ret.val = DigitAt(args.rule, args.k, 3 * args.k - 2, p)

----------------------------------------------------------------------------
(* C9 *)

\* C9: for every binary neighbourhood of length n and every rule number in
\* [0, 2**(2**n)), nks_rule returns bit (2**n - 1 - s) and number_rule bit s of the
\* 2**n-bit expansion of the rule number, s being the neighbourhood read as a binary
\* integer, so nks_rule(state, rule) = number_rule(state, rev(rule)); NKS rule 254
\* maps 000 to 0 and 111 to 1.
C9_Duality ==
    (fn \in {"nks_rule", "number_rule"} /\ phase # "call"
        /\ args.rule < 2 ^ (2 ^ Len(args.state))) =>
        LET n == 2 ^ Len(args.state)
            s == ValueOf(args.state, 2)
        IN  /\ phase = "returned"
            /\ fn = "number_rule" => ret.val = DigitAt(args.rule, 2, n, s)
            /\ fn = "nks_rule" =>
                  /\ ret.val = DigitAt(args.rule, 2, n, n - 1 - s)
                  /\ ret = number_rule(args.state, RevRule(args.rule, n))
                  /\ (args.rule = 254 /\ args.state = <<0, 0, 0>>) => ret.val = 0
                  /\ (args.rule = 254 /\ args.state = <<1, 1, 1>>) => ret.val = 1

C9_Witness ==
    /\ fn = "nks_rule" /\ phase = "returned"
    /\ args.rule = 254 /\ args.state = <<1, 1, 0>> /\ ret.val = 1

----------------------------------------------------------------------------
(* C1, C2, C10 *)

\* the 2r+1 cells of row at the indices (c-rad) mod N, ..., c, ..., (c+rad) mod N
WrappedNeighbourhood(row, c, rad) ==
    [t \in 1..(2 * rad + 1) |-> row[((c - rad + t - 1) % Len(row)) + 1]]

ZeroRow == [c \in 1..Len(cellular_automaton) |-> 0]

\* C1: for every row length N >= 1, every radius r >= 0 and every cell c, the
\* neighbourhood handed to the rule function for cell c is the 2r+1 cells of the
\* previous row at (c-r) mod N, ..., (c+r) mod N, and one neighbourhood is built
\* per cell.
C1_WrappedNeighbourhoods ==
    pc = "eval" =>
        /\ Len(states) = Len(cellular_automaton)
        /\ \A c \in 0..(Len(states) - 1) :
              states[c + 1] = WrappedNeighbourhood(array[(i - 1) + 1], c, r)

\* C2: the grid evolve returns has n_steps rows of length N, row 0 is the initial
\* row, and every cell of every later row is apply_rule of the neighbourhood of
\* that cell in the complete previous row.
C2_SynchronousGrid ==
    pc = "done" =>
        /\ retval.returned
        /\ Len(retval.grid) = n_steps
        /\ \A j \in 1..n_steps : Len(retval.grid[j]) = Len(cellular_automaton)
        /\ retval.grid[1] = cellular_automaton
        /\ \A j \in 1..(n_steps - 1) : \A c \in 0..(Len(cellular_automaton) - 1) :
              Ok(retval.grid[j + 1][c + 1])
                  = ApplyRule(apply_rule, WrappedNeighbourhood(retval.grid[j], c, r), c)

\* row is completely filled from prev: every cell of it is apply_rule of a
\* neighbourhood evolve took from prev (one per cell, or a single one for the row)
FilledFrom(row, prev) ==
    LET nb == Gather(prev, index_strides(arange(Len(prev)), 2 * r + 1).val)
    IN  /\ Len(row) = Len(cellular_automaton)
        /\ Len(nb) \in {1, Len(row)}
        /\ \A c \in 0..(Len(row) - 1) :
              Ok(row[c + 1]) = ApplyRule(apply_rule, nb[IF Len(nb) = 1 THEN 1 ELSE c + 1],
                                         IF Len(nb) = 1 THEN 0 ELSE c)

\* C10: when the rule function fails while row i is computed, evolve stops at once,
\* row i is as allocated and nothing is returned; at any moment row i and the
\* later rows are as allocated and the rows before i are completely filled.
C10_NoPartialRow ==
    pc \in {"loop", "eval", "raised", "done"} =>
        /\ \A j \in i..(n_steps - 1) : array[j + 1] = ZeroRow
        /\ \A j \in 1..(i - 1) : FilledFrom(array[j + 1], array[j])
        /\ pc # "done" => retval = NotReturned
        /\ pc = "raised" => ~ENABLED NextEvolve

C10_Witness ==
    /\ pc = "raised" /\ apply_rule.kind = "table_rule"
    /\ \E c \in 1..Len(results) : results[c] = 1
    /\ Len(results) < Len(states)
    /\ array[i + 1] = ZeroRow

----------------------------------------------------------------------------
(* C5, C6, C7, C8 *)

\* C5: for every k in [2,36] and every r, the table random_rule_table returns has
\* k**(2r+1) entries, and table_rule with it finds every neighbourhood of 2r+1 cell
\* states in [0,k-1] and returns a value in [0,k-1].
C5_TotalTable ==
    /\ gen_pc \in {"done", "looked_up"} =>
          Cardinality(DOMAIN table) = k ^ (2 * r + 1)
    /\ gen_pc = "looked_up" =>
          /\ lookup.result.err = "none"
          /\ lookup.result.val \in 0..(k - 1)

\* C6: with isotropic=True every neighbourhood string and its reverse have the same
\* value in the returned table, whatever the other arguments and the draws; the
\* value of a mirror pair is the one the string enumerated first got, since an
\* entry never changes once it is assigned.
C6_Isotropy ==
    /\ [](isotropic =>
            /\ \A s \in DOMAIN table :
                  Reverse(s) \in DOMAIN table => table[s] = table[Reverse(s)]
            /\ gen_pc \in {"done", "looked_up"} =>
                  \A s \in DOMAIN table : Reverse(s) \in DOMAIN table)
    /\ [][\A s \in DOMAIN table : s \in DOMAIN table' /\ table'[s] = table[s]]_vars

C6_Witness ==
    /\ gen_pc = "done" /\ isotropic /\ ~strong_quiescence /\ k = 2 /\ r = 1
    /\ table[<<"0", "0", "1">>] = 1 /\ table[<<"1", "0", "0">>] = 1
    /\ table[<<"0", "1", "1">>] = 0 /\ table[<<"1", "1", "0">>] = 0

\* C7: with strong_quiescence=True, for every k in [2,36] every uniform neighbourhood
\* (all 2r+1 cells equal to i) has the value i in the returned table, whatever
\* isotropic and the draws.
C7_StrongQuiescence ==
    (gen_pc \in {"done", "looked_up"} /\ strong_quiescence) =>
        \A v \in 0..(k - 1) : table[[j \in 1..(2 * r + 1) |-> Digits[v + 1]]] = v

C7_Witness ==
    /\ gen_pc = "done" /\ strong_quiescence /\ isotropic /\ k = 2 /\ r = 1
    /\ quiescent_state = <<0>>
    /\ table[<<"1", "1", "1">>] = 1 /\ table[<<"0", "0", "0">>] = 0
    /\ table[<<"0", "1", "0">>] = 0 /\ table[<<"1", "0", "1">>] = 0

\* C8: quiescent_state_count is the number of entries of the table whose value is
\* the quiescent state, so the actual lambda returned is
\* (k**(2r+1) - that number) / k**(2r+1) and lies in [0,1].
C8_ActualLambda ==
    LET quiescent == {s \in DOMAIN table : table[s] = quiescent_state[1]}
        total == k ^ (2 * r + 1)
    IN  /\ gen_pc \in {"loop", "done", "looked_up"} =>
              quiescent_state_count = Cardinality(quiescent)
        /\ gen_pc \in {"done", "looked_up"} =>
              /\ actual_lambda_val = <<total - Cardinality(quiescent), total>>
              /\ 0 <= actual_lambda_val[1] /\ actual_lambda_val[1] <= actual_lambda_val[2]

C8_Witness ==
    /\ gen_pc = "done" /\ strong_quiescence /\ isotropic /\ k = 2 /\ r = 1
    /\ quiescent_state = <<1>>
    /\ actual_lambda_val = <<5, 8>>
    /\ table[<<"1", "1", "1">>] = 1 /\ table[<<"0", "1", "1">>] = 1

====
